---- MODULE Spec2Model ----
(***************************************************************************)
(* Model of the configuration toolbox of YAWNING-TITAN                     *)
(* (yawning_titan/config/toolbox/core.py): ItemTypeProperties,             *)
(* ConfigItemValidation, ConfigGroupValidation, ConfigItem and ConfigGroup,*)
(* of the form errors of the GUI (yawning_titan_gui/forms.py) and of the   *)
(* network creators (yawning_titan/networks/network_creator.py).           *)
(*                                                                         *)
(* The specifications share the operations and the two variables:          *)
(*   Spec      a nested tree  root { g { use_isolate, use_reconnect,       *)
(*             h { c } } }  built with its defaults, then written to and   *)
(*             validated;                                                  *)
(*   SpecItem  one stand-alone ConfigItem whose properties and value range *)
(*             over every combination of the bounded universes;            *)
(*   SpecRoot  trees made by create() from a mapping, written to,          *)
(*             serialized and compared with ==;                            *)
(*   SpecRange the validation of numbers against inclusive bounds;         *)
(*   SpecForms the tree of Spec written to and asked for its form errors;  *)
(*   SpecHistory the tree of Spec compared with a second tree of the same  *)
(*             values validated a chosen number of times;                  *)
(*   SpecNet   one call of a network creator, every random draw a choice;  *)
(*   SpecPositions  one call of generate_node_positions, with fair draws.  *)
(***************************************************************************)
EXTENDS Integers, Sequences, FiniteSets, TLC

(***************************************************************************)
(* Python values.  k is the name of type(v); n is the payload: 0/1 for a   *)
(* bool, the number for an int, tenths for a float, the length for a str.  *)
(***************************************************************************)
PyValue(k, n) == [k |-> k, n |-> n]

None == PyValue("NoneType", 0)

True == PyValue("bool", 1)

False == PyValue("bool", 0)

Int0 == PyValue("int", 0)

Int1 == PyValue("int", 1)

Float15 == PyValue("float", 15)

StrEmpty == PyValue("str", 0)

StrA == PyValue("str", 1)

\* The universe of values tried on the stand-alone item.
AllValues == {None, True, False, Int0, Int1, Float15, StrEmpty, StrA}

\* The values written to the boolean items of the tree.
TreeValues == {True, False, StrA}

\* type(v)
TypeOf(v) == v.k

\* isinstance(v, t): bool is a subclass of int in Python.
IsInstance(v, t) == v.k = t \/ (t = "int" /\ v.k = "bool")

\* bool(v): None, False, 0, 0.0 and "" are falsy.
Truthy(v) == v.k # "NoneType" /\ v.n # 0

(***************************************************************************)
(* ItemTypeProperties (core.py 97-148).  allowed_types is a sequence of    *)
(* type names; NoneTypes stands for the dataclass default                  *)
(* allowed_types = None.  allow_null = None acts as False everywhere it is *)
(* read (`not self.allow_null`), so it is modelled as a BOOLEAN.           *)
(***************************************************************************)
NoneTypes == <<"None">>

ItemTypeProperties(types, null, default) ==
    [allowed_types |-> types, allow_null |-> null, default |-> default]

\* ConfigItemValidation() with its defaults, after __post_init__.
ConfigItemValidation ==
    [passed |-> TRUE, fail_reasons |-> <<>>, fail_exceptions |-> <<>>]

\* add_validation recording the reason and leaving passed as it was.
ConfigItemValidation_add_validation_keeping_passed(validation, fail_reason, exception) ==
    [passed |-> validation.passed,
     fail_reasons |-> Append(validation.fail_reasons, fail_reason),
     fail_exceptions |-> Append(validation.fail_exceptions, exception)]

\* ConfigItemValidation.add_validation: no check for duplicates.
ConfigItemValidation_add_validation(validation, fail_reason, exception) ==
    [passed |-> FALSE,
     fail_reasons |-> Append(validation.fail_reasons, fail_reason),
     fail_exceptions |-> Append(validation.fail_exceptions, exception)]

\* f"Value {val} when allow_null is not permitted."
NullMsg(val) == [check |-> "allow_null", val |-> val, types |-> <<>>]

\* f"Value {val} is of type {type(val)}, should be " + " or ".join(allowed_types)
TypeMsg(val, types) == [check |-> "type", val |-> val, types |-> types]

\* ConfigItemValidationError(msg)
ConfigItemValidationError(msg) == [cls |-> "ConfigItemValidationError", msg |-> msg]

\* The type test of ItemTypeProperties.validate, line 139: the value is
\* compared with the literal list [int, float], not with allowed_types.
TypeCheckFails(p, val) == ~(\E t \in {"int", "float"} : IsInstance(val, t))

\* validate returning at the first failed check.
ItemTypeProperties_validate_first_failure(p, val) ==
    IF ~p.allow_null /\ val = None
    THEN [raised |-> "none",
          validation |-> ConfigItemValidation_add_validation(
              ConfigItemValidation, NullMsg(val), ConfigItemValidationError(NullMsg(val)))]
    ELSE IF TypeCheckFails(p, val)
    THEN IF p.allowed_types = NoneTypes
         THEN [raised |-> "TypeError", validation |-> ConfigItemValidation]
         ELSE [raised |-> "none",
               validation |-> ConfigItemValidation_add_validation(
                   ConfigItemValidation, TypeMsg(val, p.allowed_types),
                   ConfigItemValidationError(TypeMsg(val, p.allowed_types)))]
    ELSE [raised |-> "none", validation |-> ConfigItemValidation]

\* ItemTypeProperties.validate(val).  Returns [raised, validation]: building
\* the type message iterates allowed_types, which raises TypeError (not
\* caught by `except ConfigItemValidationError`) when allowed_types is None.
ItemTypeProperties_validate(p, val) ==
    LET v0 == ConfigItemValidation
        v1 == IF ~p.allow_null /\ val = None
              THEN ConfigItemValidation_add_validation(
                       v0, NullMsg(val), ConfigItemValidationError(NullMsg(val)))
              ELSE v0
    IN  IF TypeCheckFails(p, val)
        THEN IF p.allowed_types = NoneTypes
             THEN [raised |-> "TypeError", validation |-> v1]
             ELSE [raised |-> "none",
                   validation |-> ConfigItemValidation_add_validation(
                       v1, TypeMsg(val, p.allowed_types),
                       ConfigItemValidationError(TypeMsg(val, p.allowed_types)))]
        ELSE [raised |-> "none", validation |-> v1]

(***************************************************************************)
(* ConfigGroupValidation (core.py 190-294).  element_keys is the insertion *)
(* order of the _element_validation dict; element_validation holds the     *)
(* ConfigItemValidation stored for each child item.  The entry of a child  *)
(* group is the child's own validation object (ConfigGroup.validate        *)
(* returns self.validation), so it is read through the child.              *)
(***************************************************************************)
ConfigGroupValidation ==
    [passed |-> TRUE, fail_reasons |-> <<>>, fail_exceptions |-> <<>>,
     element_keys |-> <<>>, element_validation |-> <<>>]

\* x in list
InSeq(x, s) == \E k \in 1..Len(s) : s[k] = x

\* ConfigGroupValidation.add_element_validation for a child item:
\* self._element_validation[element_name] = validation
ConfigGroupValidation_add_element_validation(gv, element_name, validation) ==
    [gv EXCEPT
       !.element_keys = IF InSeq(element_name, @) THEN @ ELSE Append(@, element_name),
       !.element_validation =
           [k \in (DOMAIN @) \cup {element_name} |->
               IF k = element_name THEN validation ELSE @[k]]]

\* The same for a child group: only the key is recorded, the value is the
\* child's live validation object.
ConfigGroupValidation_add_element_group(gv, element_name) ==
    [gv EXCEPT
       !.element_keys = IF InSeq(element_name, @) THEN @ ELSE Append(@, element_name)]

\* add_validation appending the reason whether or not the list holds it.
ConfigGroupValidation_add_validation_appending(gv, fail_reason, exception) ==
    [gv EXCEPT
       !.passed = FALSE,
       !.fail_reasons = Append(@, fail_reason),
       !.fail_exceptions = IF InSeq(exception, @) THEN @ ELSE Append(@, exception)]

\* ConfigGroupValidation.add_validation: passed = False, then each of the
\* reason and the exception is appended unless already in its list.
ConfigGroupValidation_add_validation(gv, fail_reason, exception) ==
    [gv EXCEPT
       !.passed = FALSE,
       !.fail_reasons = IF InSeq(fail_reason, @) THEN @ ELSE Append(@, fail_reason),
       !.fail_exceptions = IF InSeq(exception, @) THEN @ ELSE Append(@, exception)]

(***************************************************************************)
(* The schema of the tree.  Children(grp) is get_config_elements(): the    *)
(* attributes of the group that are ConfigItem or ConfigGroup, in the      *)
(* order the constructor of the group class assigned them.                 *)
(***************************************************************************)
Groups == {"root", "g", "h"}

TreeItems == {"use_isolate", "use_reconnect", "c"}

Children(grp) ==
    CASE grp = "root" -> <<"g">>
      [] grp = "g" -> <<"use_isolate", "use_reconnect", "h">>
      [] grp = "h" -> <<"c">>
      [] OTHER -> <<>>

\* get_config_elements(ConfigItem) / get_config_elements(ConfigGroup)
ChildItems(grp) == {Children(grp)[k] : k \in {j \in 1..Len(Children(grp)) : Children(grp)[j] \notin Groups}}

ChildGroups(grp) == {Children(grp)[k] : k \in {j \in 1..Len(Children(grp)) : Children(grp)[j] \in Groups}}

(***************************************************************************)
(* ConfigItem (core.py 297-367).  An item is the record of its attributes  *)
(* value, doc, properties and validation.                                  *)
(***************************************************************************)

\* ItemTypeProperties.__post_init__: a truthy default is validated and the
\* first failure is raised; a falsy default (None, False, 0, "") is not
\* looked at.  Returns the name of the exception raised, or "none".
ItemTypeProperties_post_init(p) ==
    IF Truthy(p.default)
    THEN LET validated_default == ItemTypeProperties_validate(p, p.default)
         IN  IF validated_default.raised # "none" THEN validated_default.raised
             ELSE IF ~validated_default.validation.passed
                  THEN validated_default.validation.fail_exceptions[1].cls
                  ELSE "none"
    ELSE "none"

\* ConfigItem(value, doc, properties) followed by __post_init__: a None value
\* is replaced by a truthy default, then validation is computed once.
ConfigItem_post_init(value, doc, p) ==
    LET v == IF value = None /\ Truthy(p.default) THEN p.default ELSE value
        r == ItemTypeProperties_validate(p, v)
    IN  [raised |-> r.raised,
         obj |-> [value |-> v, doc |-> doc, properties |-> p,
                  validation |-> r.validation]]

\* ConfigItem.validate(): every item of the model has properties, so the
\* result is properties.validate(self.value); nothing is stored in the item.
ConfigItem_validate(obj) == ItemTypeProperties_validate(obj.properties, obj.value)

\* ConfigItem.set_value(value): self.__dict__["value"] = value, nothing else.
ConfigItem_set_value(obj, value) == [obj EXCEPT !.value = value]

\* ConfigItem.__setattr__("value", v): the value is stored, then validate()
\* is called and its result dropped (an exception of validate propagates
\* after the store).
ConfigItem_setattr_value(obj, value) ==
    LET stored == [obj EXCEPT !.value = value]
    IN  [raised |-> ConfigItem_validate(stored).raised, obj |-> stored]

(***************************************************************************)
(* ConfigGroup (core.py 370-425).  The operations work on a heap           *)
(*   st = [item, group, log, raised]                                       *)
(* of the item objects, the group objects (doc, validation), the calls     *)
(* made so far by the running operation, and the exception in flight.      *)
(***************************************************************************)

\* The calls an operation makes, in order: <<"set_value", item>>,
\* <<"validate", item or group>>.
Call(st, what, who) == [st EXCEPT !.log = Append(@, <<what, who>>)]

\* f"'use_isolate', 'use_reconnect' -> ... if the other is true"
MutualMsg == [check |-> "mutual", val |-> None, types |-> <<"use_isolate", "use_reconnect">>]

\* ConfigGroupValidationError(msg): every raise makes a new object, and
\* `exception not in fail_exceptions` compares objects by identity; id
\* numbers the objects held by one validation.
ConfigGroupValidationError(msg, gv) ==
    [cls |-> "ConfigGroupValidationError", msg |-> msg,
     id |-> Len(gv.fail_exceptions) + 1]

\* bool(item.value) of a child that may be absent from the heap
Enabled(st, i) == i \in DOMAIN st.item /\ Truthy(st.item[i].value)

\* The validate() override of the group class of g: after the base
\* validate, the mutual-requirement rule between use_isolate and
\* use_reconnect is evaluated on the live values and a violation is added
\* with add_validation.
GroupRules(st, grp) ==
    IF grp = "g" /\ Enabled(st, "use_isolate") # Enabled(st, "use_reconnect")
    THEN [st EXCEPT !.group[grp].validation =
             ConfigGroupValidation_add_validation(
                 @, MutualMsg, ConfigGroupValidationError(MutualMsg, @))]
    ELSE st

RECURSIVE ConfigGroup_validate(_, _)

RECURSIVE ConfigGroup_validate_elements(_, _, _)

\* validate() of the base class alone: the elements are validated and the
\* rules of the group class never run.
ConfigGroup_validate_without_rules(st, grp) ==
    ConfigGroup_validate_elements(Call(st, "validate", grp), grp, 1)

\* ConfigGroup.validate(): self.validation exists after construction and is
\* kept (never replaced by a new ConfigGroupValidation); the elements are
\* validated, then the rules of the group class run.
ConfigGroup_validate(st, grp) ==
    LET s1 == ConfigGroup_validate_elements(Call(st, "validate", grp), grp, 1)
    IN  IF s1.raised # "none" THEN s1 ELSE GroupRules(s1, grp)

\* ConfigGroup.validate_elements(), from the k-th child on:
\* self.validation.add_element_validation(k, element.validate())
ConfigGroup_validate_elements(st, grp, k) ==
    IF k > Len(Children(grp)) THEN st
    ELSE LET e == Children(grp)[k]
         IN  IF e \in Groups
             THEN LET s1 == ConfigGroup_validate(st, e)
                  IN  IF s1.raised # "none" THEN s1
                      ELSE ConfigGroup_validate_elements(
                               [s1 EXCEPT !.group[grp].validation =
                                   ConfigGroupValidation_add_element_group(@, e)],
                               grp, k + 1)
             ELSE LET r == ConfigItem_validate(st.item[e])
                      s1 == Call(st, "validate", e)
                  IN  IF r.raised # "none" THEN [s1 EXCEPT !.raised = r.raised]
                      ELSE ConfigGroup_validate_elements(
                               [s1 EXCEPT !.group[grp].validation =
                                   ConfigGroupValidation_add_element_validation(
                                       @, e, r.validation)],
                               grp, k + 1)

\* ConfigGroup.__init__(doc): the children are already attributes; doc is
\* stored and validate() finds no validation attribute, makes a new
\* ConfigGroupValidation and fills it.
ConfigGroup_init(st, grp, doc) ==
    ConfigGroup_validate(
        [st EXCEPT !.group = [x \in (DOMAIN @) \cup {grp} |->
             IF x = grp THEN [doc |-> doc, validation |-> ConfigGroupValidation]
             ELSE @[x]]],
        grp)

(***************************************************************************)
(* The mapping given to set_from_dict: a sequence of entries in the        *)
(* iteration order of the dict.  type(v) == dict is isdict; sub is the     *)
(* nested mapping, val the scalar.                                         *)
(***************************************************************************)
Scalar(key, val) == [key |-> key, isdict |-> FALSE, val |-> val, sub |-> <<>>]

Dict(key, sub) == [key |-> key, isdict |-> TRUE, val |-> None, sub |-> sub]

RECURSIVE ConfigGroup_set_from_dict(_, _, _, _)

RECURSIVE SetEntries(_, _, _, _)

\* set_from_dict validating at every level, whatever root says.
ConfigGroup_set_from_dict_validating(st, grp, config_dict, root) ==
    LET s1 == SetEntries(st, grp, config_dict, 1)
    IN  IF s1.raised = "none" THEN ConfigGroup_validate(s1, grp) ELSE s1

\* ConfigGroup.set_from_dict(config_dict, root)
ConfigGroup_set_from_dict(st, grp, config_dict, root) ==
    LET s1 == SetEntries(st, grp, config_dict, 1)
    IN  IF root /\ s1.raised = "none" THEN ConfigGroup_validate(s1, grp) ELSE s1

\* The loop looking a scalar's key up among all the items, not only among
\* the attributes of the group.
SetEntries_anywhere(st, grp, config_dict, k) ==
    IF k > Len(config_dict) THEN st
    ELSE LET e == config_dict[k]
         IN  IF e.isdict /\ InSeq(e.key, Children(grp)) /\ e.key \in Groups
             THEN SetEntries(ConfigGroup_set_from_dict(st, e.key, e.sub, FALSE),
                             grp, config_dict, k + 1)
             ELSE IF ~e.isdict /\ e.key \in DOMAIN st.item
             THEN SetEntries(
                      Call([st EXCEPT !.item[e.key] = ConfigItem_set_value(@, e.val)],
                           "set_value", e.key),
                      grp, config_dict, k + 1)
             ELSE SetEntries(st, grp, config_dict, k + 1)

\* The loop of set_from_dict from the k-th entry on.  getattr(self, name,
\* None) is a ConfigGroup or a ConfigItem only for the name of a child.
SetEntries(st, grp, config_dict, k) ==
    IF k > Len(config_dict) THEN st
    ELSE LET e == config_dict[k]
             isChild == InSeq(e.key, Children(grp))
         IN  IF e.isdict /\ isChild /\ e.key \in Groups
             THEN SetEntries(ConfigGroup_set_from_dict(st, e.key, e.sub, FALSE),
                             grp, config_dict, k + 1)
             ELSE IF ~e.isdict /\ isChild /\ e.key \notin Groups
             THEN SetEntries(
                      Call([st EXCEPT !.item[e.key] = ConfigItem_set_value(@, e.val)],
                           "set_value", e.key),
                      grp, config_dict, k + 1)
             ELSE SetEntries(st, grp, config_dict, k + 1)

(***************************************************************************)
(* The error tree (ConfigGroupValidation.to_dict, group_passed).  A dict   *)
(* is a sequence of entries [key, kind, reasons, sub]: kind "reasons" for  *)
(* a list of fail reasons, "dict" for a nested dict, "Passed" for the      *)
(* string "Passed".                                                        *)
(***************************************************************************)

\* validation.passed of the entry of element_validation named e
ElementPassed(st, grp, e) ==
    IF e \in Groups THEN st.group[e].validation.passed
    ELSE st.group[grp].validation.element_validation[e].passed

\* ConfigGroupValidation.group_passed
group_passed(st, grp) ==
    \A k \in 1..Len(st.group[grp].validation.element_keys) :
        ElementPassed(st, grp, st.group[grp].validation.element_keys[k])

Reasons(key, reasons) == [key |-> key, kind |-> "reasons", reasons |-> reasons, sub |-> <<>>]

SubDict(key, sub) == [key |-> key, kind |-> "dict", reasons |-> <<>>, sub |-> sub]

Passed(key) == [key |-> key, kind |-> "Passed", reasons |-> <<>>, sub |-> <<>>]

RECURSIVE ConfigGroupValidation_to_dict(_, _, _, _)

RECURSIVE ToDictElements(_, _, _, _)

\* ConfigGroupValidation.to_dict(element_name, root) of the validation of grp
ConfigGroupValidation_to_dict(st, grp, element_name, root) ==
    LET gv == st.group[grp].validation
        d0 == IF gv.passed THEN <<>> ELSE <<Reasons("group", gv.fail_reasons)>>
        d == ToDictElements(st, grp, d0, 1)
    IN  IF root
        THEN IF d = <<>> THEN <<Passed(element_name)>> ELSE <<SubDict(element_name, d)>>
        ELSE d

\* The loop of to_dict over element_validation.items(), from the k-th on
ToDictElements(st, grp, d, k) ==
    LET gv == st.group[grp].validation
    IN  IF k > Len(gv.element_keys) THEN d
        ELSE LET e == gv.element_keys[k]
             IN  IF e \in Groups
                    /\ (~group_passed(st, e) \/ ~st.group[e].validation.passed)
                 THEN ToDictElements(st, grp,
                          Append(d, SubDict(e, ConfigGroupValidation_to_dict(st, e, e, FALSE))),
                          k + 1)
                 ELSE IF ~ElementPassed(st, grp, e)
                 THEN ToDictElements(st, grp,
                          Append(d, Reasons(e, gv.element_validation[e].fail_reasons)),
                          k + 1)
                 ELSE ToDictElements(st, grp, d, k + 1)

\* ConfigItem.stringify()
ConfigItem_stringify(obj) == obj.value

(***************************************************************************)
(* Equality (ConfigBase.stringify, __hash__, __eq__).  A formatted string  *)
(* is identified by the structure it prints; the hash of a tuple by the    *)
(* tuple of the hashes of its components.                                  *)
(***************************************************************************)

\* hash(v) of a value: numbers that compare equal hash alike whatever their
\* type (True, 1 and 1.0), and hash(-1) is -2.
HashValue(v) ==
    LET tenths == IF v.k = "float" THEN v.n ELSE 10 * v.n
    IN  IF v.k \in {"bool", "int", "float"}
        THEN PyValue("number", IF tenths = -10 THEN -20 ELSE tenths)
        ELSE v

RECURSIVE ConfigGroupValidation_stringify(_, _)

\* str(validation) of the validation of grp, inside the string of a group:
\* the repr of a ConfigItemValidation shows only passed (fail_reason and
\* fail_exception are deleted from the instance and print as the class
\* defaults), the repr of an exception shows its class and message.
ConfigGroupValidation_stringify(st, grp) ==
    LET gv == st.group[grp].validation
    IN  [passed |-> gv.passed,
         fail_reasons |-> gv.fail_reasons,
         fail_exceptions |-> [k \in 1..Len(gv.fail_exceptions) |->
             [cls |-> gv.fail_exceptions[k].cls, msg |-> gv.fail_exceptions[k].msg]],
         element_validation |-> [k \in 1..Len(gv.element_keys) |->
             LET e == gv.element_keys[k]
             IN  [key |-> e,
                  repr |-> IF e \in Groups THEN ConfigGroupValidation_stringify(st, e)
                           ELSE [passed |-> gv.element_validation[e].passed]]]]

RECURSIVE ConfigBase_stringify(_, _)

\* group.stringify(): name=child.stringify() for every child (the value of
\* an item, formatted with str), then name=attribute for doc and validation.
ConfigBase_stringify(st, grp) ==
    [cls |-> grp,
     elements |-> [k \in 1..Len(Children(grp)) |->
         LET e == Children(grp)[k]
         IN  IF e \in Groups THEN ConfigBase_stringify(st, e)
             ELSE ConfigItem_stringify(st.item[e])],
     doc |-> st.group[grp].doc,
     validation |-> ConfigGroupValidation_stringify(st, grp)]

\* hash(validation) of the validation of grp of the tree object obj: passed,
\* tuple(fail_reasons), tuple(fail_exceptions) (an exception hashes by
\* identity: which object of which tree it is) and tuple(_element_validation),
\* the keys of the dict.
ConfigGroupValidation_hash(st, grp, obj) ==
    LET gv == st.group[grp].validation
    IN  [passed |-> gv.passed,
         fail_reasons |-> gv.fail_reasons,
         fail_exceptions |-> [k \in 1..Len(gv.fail_exceptions) |->
             <<obj, grp, gv.fail_exceptions[k].id>>],
         element_validation |-> gv.element_keys]

\* hash(group) of the tree object obj: the tuple of child.stringify() for
\* every child (the raw value of an item, the string of a group), then
\* tuple(doc) and the validation.
ConfigBase_hash(st, grp, obj) ==
    [elements |-> [k \in 1..Len(Children(grp)) |->
         LET e == Children(grp)[k]
         IN  IF e \in Groups THEN ConfigBase_stringify(st, e)
             ELSE HashValue(ConfigItem_stringify(st.item[e]))],
     doc |-> st.group[grp].doc,
     validation |-> ConfigGroupValidation_hash(st, grp, obj)]

\* a.grp == b.other, for two distinct tree objects a and b
ConfigBase_eq(a, grp, b, other) ==
    /\ grp = other
    /\ ConfigBase_hash(a, grp, "self") = ConfigBase_hash(b, other, "other")

RECURSIVE ConfigGroup_to_dict_values_only(_, _)

\* group.to_dict(values_only=True): the bare value under the name of every
\* item, a nested mapping under the name of every group, no doc and no
\* properties.
ConfigGroup_to_dict_values_only(st, grp) ==
    [k \in 1..Len(Children(grp)) |->
        LET e == Children(grp)[k]
        IN  IF e \in Groups THEN Dict(e, ConfigGroup_to_dict_values_only(st, e))
            ELSE Scalar(e, st.item[e].value)]

(***************************************************************************)
(* State.                                                                  *)
(*   heap   item:   the ConfigItem objects, by name                        *)
(*          group:  the ConfigGroup objects (doc, validation), by name     *)
(*          log:    the calls the last operation made, in order            *)
(*          raised: the exception the last operation raised, or "none"     *)
(*   last   the last operation: its name, target, arguments and the        *)
(*          validation it returned                                         *)
(***************************************************************************)
VARIABLES heap, last

vars == <<heap, last>>

\* The longest fail_exceptions list of a group the model follows.
MaxGroupExceptions == 2

\* The heap as an operation finds it.
Start == [heap EXCEPT !.log = <<>>, !.raised = "none"]

\* What a method hands back or prints: None, or the formatted string that
\* dumps an error tree (the string is identified by the tree it dumps).
ReturnNone == [kind |-> "None", tree |-> <<>>]

ReturnString(tree) == [kind |-> "str", tree |-> tree]

\* ConfigGroupValidation.log(element_name) of the validation of grp: the
\* string is built from to_dict(element_name) and printed; nothing is
\* returned.
ConfigGroupValidation_log(st, grp, element_name) ==
    [printed |-> ReturnString(ConfigGroupValidation_to_dict(st, grp, element_name, TRUE)),
     returned |-> ReturnNone]

\* The properties argument of an operation that takes none.
NoProperties == ItemTypeProperties(NoneTypes, FALSE, None)

Op(op, target, val, data, ret) ==
    [op |-> op, target |-> target, val |-> val, data |-> data, ret |-> ret,
     props |-> NoProperties, payload |-> ReturnNone]

WithinBounds(st) ==
    \A grp \in DOMAIN st.group :
        Len(st.group[grp].validation.fail_exceptions) <= MaxGroupExceptions

\* The properties the item classes of the tree are declared with.
TreeProperties(i) ==
    IF i = "c" THEN ItemTypeProperties(<<"int", "float">>, TRUE, Int1)
    ELSE ItemTypeProperties(<<"bool">>, FALSE, False)

\* The value each item of the tree is constructed with.
TreeValue(i) == IF i = "c" THEN None ELSE False

TreeDoc(i) == IF i = "c" THEN "doc c" ELSE "doc flag"

\* The values the model writes to an item.
Inputs(i) ==
    IF i = "c" THEN {None, True, Int1, StrA}
    ELSE IF i \in TreeItems THEN TreeValues
    ELSE AllValues

\* The tree after the constructors ran: the items, then the groups from the
\* innermost out (each group class constructs its children first).
InitTree ==
    LET items == [i \in TreeItems |->
                     ConfigItem_post_init(TreeValue(i), TreeDoc(i), TreeProperties(i)).obj]
        s0 == [item |-> items, group |-> <<>>, log |-> <<>>, raised |-> "none"]
        s1 == ConfigGroup_init(s0, "h", "doc h")
        s2 == ConfigGroup_init(s1, "g", "doc g")
    IN  ConfigGroup_init(s2, "root", "doc root")

Init ==
    /\ heap = [InitTree EXCEPT !.log = <<>>]
    /\ last = Op("init", "root", None, <<>>, ConfigItemValidation)

\* item.set_value(v)
SetValue(i, v) ==
    /\ heap' = Call([Start EXCEPT !.item[i] = ConfigItem_set_value(@, v)],
                    "set_value", i)
    /\ last' = Op("set_value", i, v, <<>>, ConfigItemValidation)

\* item.value = v
AssignValue(i, v) ==
    LET r == ConfigItem_setattr_value(heap.item[i], v)
    IN  /\ heap' = Call(Call([Start EXCEPT !.item[i] = r.obj, !.raised = r.raised],
                             "setattr", i), "validate", i)
        /\ last' = Op("setattr", i, v, <<>>, ConfigItemValidation)

\* item.validate()
ValidateItem(i) ==
    LET r == ConfigItem_validate(heap.item[i])
    IN  /\ heap' = Call([Start EXCEPT !.raised = r.raised], "validate", i)
        /\ last' = Op("validate", i, None, <<>>,
                       IF r.raised = "none" THEN r.validation ELSE ConfigItemValidation)

\* group.validate()
ValidateGroup(grp) ==
    /\ heap' = ConfigGroup_validate(Start, grp)
    /\ WithinBounds(heap')
    /\ last' = Op("validate", grp, None, <<>>, ConfigItemValidation)

\* group.set_from_dict(data), root = True
SetFromDict(grp, data) ==
    /\ heap' = ConfigGroup_set_from_dict(Start, grp, data, TRUE)
    /\ WithinBounds(heap')
    /\ last' = Op("set_from_dict", grp, None, data, ConfigItemValidation)

\* The mappings given to set_from_dict on h, g and root: keys of children,
\* of non-child attributes (doc, validation), unknown keys (zz), a scalar
\* for a group and a dict for an item.
HDicts ==
    {<<Scalar("c", StrA)>>, <<Scalar("zz", True)>>,
     <<Scalar("doc", StrA), Scalar("c", Int1)>>}

GDicts ==
    {<<Scalar("use_isolate", StrA), Scalar("validation", None)>>,
     <<Scalar("use_isolate", True), Scalar("use_reconnect", True)>>,
     <<Scalar("use_reconnect", False), Scalar("h", True)>>,
     <<Dict("use_isolate", <<Scalar("c", StrA)>>), Scalar("c", StrA)>>}
    \cup {<<Dict("h", d), Scalar("use_isolate", False)>> : d \in HDicts}

\* The mapping that names every item of the tree, with the value its
\* constructor gives it.
DefaultsDict ==
    <<Dict("g", <<Scalar("use_isolate", False), Scalar("use_reconnect", False),
                  Dict("h", <<Scalar("c", Int1)>>)>>)>>

RootDicts ==
    {<<Dict("g", d)>> : d \in GDicts}
    \cup {<<Scalar("g", True)>>, <<Dict("h", <<Scalar("c", StrA)>>)>>, DefaultsDict}

DictsFor(grp) ==
    CASE grp = "root" -> RootDicts
      [] grp = "g" -> GDicts
      [] grp = "h" -> HDicts
      [] OTHER -> {}

Next ==
    \/ \E i \in DOMAIN heap.item : \E v \in Inputs(i) : SetValue(i, v)
    \/ \E i \in DOMAIN heap.item : \E v \in Inputs(i) : AssignValue(i, v)
    \/ \E i \in DOMAIN heap.item : ValidateItem(i)
    \/ \E grp \in DOMAIN heap.group : ValidateGroup(grp)
    \/ \E grp \in DOMAIN heap.group : \E data \in DictsFor(grp) : SetFromDict(grp, data)

Spec == Init /\ [][Next]_vars

(***************************************************************************)
(* The stand-alone item: properties and an item are constructed from any   *)
(* arguments, then the item is written to and validated.                   *)
(***************************************************************************)
AllTypes == {NoneTypes, <<"bool">>, <<"int">>, <<"int", "float">>, <<"str">>}

AllDefaults == {None, False, Int1, StrEmpty, StrA}

AllProperties ==
    {ItemTypeProperties(t, n, d) : t \in AllTypes, n \in BOOLEAN, d \in AllDefaults}

\* p = SomeProperties(...); item = ConfigItem(value, doc, p), while no item
\* exists.  When either constructor raises, no item comes to exist.
NewItem(p, value) ==
    LET pr == ItemTypeProperties_post_init(p)
        cr == ConfigItem_post_init(value, "doc item", p)
    IN  /\ DOMAIN heap.item = {}
        /\ heap' = IF pr # "none"
                   THEN Call([Start EXCEPT !.raised = pr], "ItemTypeProperties", "item")
                   ELSE IF cr.raised # "none"
                   THEN Call([Start EXCEPT !.raised = cr.raised], "ConfigItem", "item")
                   ELSE Call([Start EXCEPT !.item = [x \in {"item"} |-> cr.obj]],
                             "ConfigItem", "item")
        /\ last' = [Op("new", "item", value, <<>>, ConfigItemValidation)
                       EXCEPT !.props = p]

\* The longest fail_reasons list of an item the model follows.
MaxItemReasons == 2

\* item.validation.add_validation(fail_reason, exception)
AddValidation(i, fail_reason) ==
    /\ Len(heap.item[i].validation.fail_reasons) < MaxItemReasons
    /\ heap' = Call([Start EXCEPT !.item[i].validation =
                        ConfigItemValidation_add_validation(
                            @, fail_reason, ConfigItemValidationError(fail_reason))],
                    "add_validation", i)
    /\ last' = Op("add_validation", i, None, <<>>, heap'.item[i].validation)

\* Nothing is constructed yet.
InitItem ==
    /\ heap = [item |-> <<>>, group |-> <<>>, log |-> <<>>, raised |-> "none"]
    /\ last = Op("init", "item", None, <<>>, ConfigItemValidation)

NextItem ==
    \/ \E p \in AllProperties : \E v \in AllValues : NewItem(p, v)
    \/ \E i \in DOMAIN heap.item : \E v \in Inputs(i) : SetValue(i, v)
    \/ \E i \in DOMAIN heap.item : \E v \in Inputs(i) : AssignValue(i, v)
    \/ \E i \in DOMAIN heap.item : ValidateItem(i)
    \/ \E i \in DOMAIN heap.item : AddValidation(i, NullMsg(None))

SpecItem == InitItem /\ [][NextItem]_vars

(***************************************************************************)
(* The schema root: GameMode.create builds a tree of a top-level group     *)
(* class and populates it from a mapping.  Each of the group classes       *)
(* serves as the top-level class.                                          *)
(***************************************************************************)

\* cls(): the constructors of the items and groups of the subtree of cls,
\* from the innermost group out.
NewTree(cls) ==
    LET items(S) == [i \in S |->
                        ConfigItem_post_init(TreeValue(i), TreeDoc(i), TreeProperties(i)).obj]
        s0 == [item |-> items({"c"}), group |-> <<>>, log |-> <<>>, raised |-> "none"]
        s1 == ConfigGroup_init(s0, "h", "doc h")
        s2 == ConfigGroup_init([s1 EXCEPT !.item = items(TreeItems)], "g", "doc g")
        s3 == ConfigGroup_init(s2, "root", "doc root")
    IN  [CASE cls = "h" -> s1
           [] cls = "g" -> s2
           [] OTHER -> s3
         EXCEPT !.log = <<>>]

\* cls.create(dict, raise_errors) with the current key layout.  heap holds
\* the tree create built, whether it is returned or the error is raised.
Create(cls, data, raise_errors) ==
    LET s1 == ConfigGroup_set_from_dict(NewTree(cls), cls, data, TRUE)
        fail == Truthy(raise_errors) /\ ~s1.group[cls].validation.passed
    IN  /\ heap' = IF fail THEN [s1 EXCEPT !.raised = "ValueError"] ELSE s1
        /\ WithinBounds(heap')
        /\ last' = [Op("create", cls, raise_errors, data, ConfigItemValidation)
                       EXCEPT !.payload =
                           IF fail
                           THEN ConfigGroupValidation_log(s1, cls, "root").returned
                           ELSE ReturnNone]

TopClasses == Groups

\* The class of the tree on the heap.
Top ==
    CASE "root" \in DOMAIN heap.group -> "root"
      [] "g" \in DOMAIN heap.group -> "g"
      [] OTHER -> "h"

\* cls.create(data), the tree it returns.
Created(cls, data) == ConfigGroup_set_from_dict(NewTree(cls), cls, data, TRUE)

PyBool(b) == IF b THEN True ELSE False

\* The serialized mappings of the trees that hold the values of the tree on
\* the heap but for at most one item.
Edits ==
    UNION {{ConfigGroup_to_dict_values_only([heap EXCEPT !.item[i].value = v], Top) :
                v \in Inputs(i)} : i \in DOMAIN heap.item}

\* tree == Top.create(data): last.val holds the outcome.
Equals(data) ==
    /\ heap' = Start
    /\ last' = Op("eq", Top, PyBool(ConfigBase_eq(heap, Top, Created(Top, data), Top)),
                  data, ConfigItemValidation)

\* tree == Top.create(tree.to_dict(values_only=True)): last.data holds the
\* serialized mapping, last.val the outcome.
RoundTrip ==
    LET data == ConfigGroup_to_dict_values_only(heap, Top)
    IN  /\ heap' = Start
        /\ last' = Op("round_trip", Top,
                      PyBool(ConfigBase_eq(Created(Top, data), Top, heap, Top)),
                      data, ConfigItemValidation)

NextRoot ==
    \/ \E cls \in TopClasses : \E data \in DictsFor(cls) :
           \E raise_errors \in {True, False} : Create(cls, data, raise_errors)
    \/ \E i \in DOMAIN heap.item : \E v \in Inputs(i) : SetValue(i, v)
    \/ \E data \in Edits : Equals(data)
    \/ RoundTrip

SpecRoot == Init /\ [][NextRoot]_vars

(***************************************************************************)
(* The numeric item: properties of a subclass of ItemTypeProperties that   *)
(* adds inclusive bounds min_val and max_val to the base checks.           *)
(***************************************************************************)
IntM1 == PyValue("int", -1)

Int2 == PyValue("int", 2)

FloatM01 == PyValue("float", -1)

Float05 == PyValue("float", 5)

Float11 == PyValue("float", 11)

\* The number a value stands for, in tenths.
Tenths(v) == IF v.k = "float" THEN v.n ELSE 10 * v.n

IsNumber(v) == v.k \in {"int", "float"}

NumericProperties(types, null, default, min_val, max_val) ==
    [allowed_types |-> types, allow_null |-> null, default |-> default,
     min_val |-> min_val, max_val |-> max_val]

\* f"... Needs to have a value greater than: {min_val} (inclusive)" for the
\* lower bound, "less than: {max_val} (inclusive)" for the upper bound.
RangeMsg(side, bound) == [check |-> side, val |-> bound, types |-> <<>>]

\* validate(val) of the numeric properties: the base checks, then a number
\* below min_val or above max_val is reported with the bound it violates.
NumericProperties_validate(p, val) ==
    LET r == ItemTypeProperties_validate(p, val)
        v1 == IF IsNumber(val) /\ Tenths(val) < Tenths(p.min_val)
              THEN ConfigItemValidation_add_validation(
                       r.validation, RangeMsg("lower", p.min_val),
                       ConfigItemValidationError(RangeMsg("lower", p.min_val)))
              ELSE r.validation
        v2 == IF IsNumber(val) /\ Tenths(val) > Tenths(p.max_val)
              THEN ConfigItemValidation_add_validation(
                       v1, RangeMsg("upper", p.max_val),
                       ConfigItemValidationError(RangeMsg("upper", p.max_val)))
              ELSE v1
    IN  IF r.raised # "none" THEN r ELSE [raised |-> "none", validation |-> v2]

\* The bounds of the items of the blue agent: [0, 1] and [-1, 1].
AllRanges == {<<Int0, Int1>>, <<IntM1, Int1>>}

RangeProperties ==
    {NumericProperties(t, n, None, b[1], b[2]) :
        t \in {<<"int">>, <<"float">>, <<"int", "float">>}, n \in BOOLEAN, b \in AllRanges}

RangeValues == {None, IntM1, Int0, Int1, Int2, FloatM01, Float05, Float11, PyValue("int", -2)}

\* properties.validate(val) of numeric properties p
ValidateRange(p, val) ==
    LET r == NumericProperties_validate(p, val)
    IN  /\ heap' = Call([Start EXCEPT !.raised = r.raised], "validate", "item")
        /\ last' = [Op("validate_range", "item", val, <<>>, r.validation)
                       EXCEPT !.props = p]

NextRange == \E p \in RangeProperties : \E val \in RangeValues : ValidateRange(p, val)

SpecRange == InitItem /\ [][NextRange]_vars

(***************************************************************************)
(* Properties.                                                             *)
(***************************************************************************)

\* The groups of the subtree of grp, grp included.
SubGroups(grp) ==
    CASE grp = "root" -> {"root", "g", "h"}
      [] grp = "g" -> {"g", "h"}
      [] grp = "h" -> {"h"}
      [] OTHER -> {}

\* The last operation was validate() or set_from_dict() on a group and it
\* returned.
GroupValidated ==
    /\ last.op \in {"validate", "set_from_dict"}
    /\ last.target \in Groups
    /\ heap.raised = "none"

\* The last operation was validate() on the stand-alone item.
ItemValidated == last.op = "validate" /\ last.target = "item"

\* A validation result holds a type-mismatch reason.
HasTypeFailure(validation) ==
    \E k \in 1..Len(validation.fail_reasons) : validation.fail_reasons[k].check = "type"

\* C1: after any sequence of completed writes to an item's value, the
\* item's cached validation equals the result of validating its current
\* value against its properties.
C1_ValidationMatchesValue ==
    heap.raised = "none" =>
        \A i \in DOMAIN heap.item :
            heap.item[i].validation = ConfigItem_validate(heap.item[i]).validation

\* C2: after ConfigGroup.validate() returns, at every nesting level the
\* group's validation.passed is true iff no group-level failure is recorded
\* for the group and every entry of its element_validation has passed.
C2_PassedIsConjunction ==
    GroupValidated =>
        \A grp \in SubGroups(last.target) :
            heap.group[grp].validation.passed
                <=> (/\ heap.group[grp].validation.fail_reasons = <<>>
                     /\ group_passed(heap, grp))

\* C3: a boolean value never passes validation of an item whose allowed
\* types are int and/or float: the result has passed = false and a
\* type-mismatch reason.
C3_BoolFailsNumericItem ==
    (/\ ItemValidated
     /\ heap.raised = "none"
     /\ TypeOf(heap.item["item"].value) = "bool"
     /\ heap.item["item"].properties.allowed_types \in {<<"int">>, <<"int", "float">>})
        => (~last.ret.passed /\ HasTypeFailure(last.ret))

\* C4: ItemTypeProperties.validate(val) records a type-mismatch failure iff
\* the type of val is not one of allowed_types.
C4_TypeFailureIffNotAllowed ==
    (/\ ItemValidated
     /\ heap.raised = "none"
     /\ heap.item["item"].properties.allowed_types # NoneTypes)
        => (HasTypeFailure(last.ret)
                <=> ~InSeq(TypeOf(heap.item["item"].value),
                           heap.item["item"].properties.allowed_types))

\* C5: set_value(v) never raises; afterwards the value is exactly v, doc and
\* properties are unchanged, and an invalid v shows as validation.passed
\* being false.
C5_SetValueStoresAndReports ==
    [][last'.op = "set_value" =>
          LET i == last'.target
          IN  /\ heap'.raised = "none"
              /\ heap'.item[i].value = last'.val
              /\ heap'.item[i].doc = heap.item[i].doc
              /\ heap'.item[i].properties = heap.item[i].properties
              /\ (~ItemTypeProperties_validate(heap.item[i].properties,
                                               last'.val).validation.passed
                     => ~heap'.item[i].validation.passed)]_vars

\* C6: leaf validation and group validation never raise, for any value and
\* any constraint settings, allowed_types left unset included.
C6_ValidateNeverRaises ==
    last.op = "validate" => heap.raised = "none"

\* The assignments <<item, value>> a mapping names when given to grp: a
\* scalar under the name of a child item, at any depth of nested dicts under
\* the names of child groups.
RECURSIVE NamedAssignments(_, _)

NamedAssignments(grp, data) ==
    UNION {IF ~data[k].isdict /\ data[k].key \in ChildItems(grp)
           THEN {<<data[k].key, data[k].val>>}
           ELSE IF data[k].isdict /\ data[k].key \in ChildGroups(grp)
           THEN NamedAssignments(data[k].key, data[k].sub)
           ELSE {} : k \in 1..Len(data)}

NamedItems(grp, data) == {a[1] : a \in NamedAssignments(grp, data)}

\* The positions of the calls of one kind in the log of the last operation.
Calls(what) == {k \in 1..Len(heap.log) : heap.log[k][1] = what}

\* C7: during set_from_dict(data, root=True) no validate() runs before every
\* assignment named in data is applied, those of the recursive calls on child
\* groups included; then validate() runs once on the root and refreshes the
\* validation of every descendant.
C7_ValidateAfterAllAssignments ==
    (last.op = "set_from_dict" /\ heap.raised = "none") =>
        /\ \A a \in Calls("set_value") : \A b \in Calls("validate") : a < b
        /\ {heap.log[k][2] : k \in Calls("set_value")}
               = NamedItems(last.target, last.data)
        /\ \A a \in NamedAssignments(last.target, last.data) :
               heap.item[a[1]].value = a[2]
        /\ \A grp \in SubGroups(last.target) :
               /\ Cardinality({k \in Calls("validate") : heap.log[k][2] = grp}) = 1
               /\ \A e \in ChildItems(grp) :
                      heap.group[grp].validation.element_validation[e]
                          = ConfigItem_validate(heap.item[e]).validation

\* A set_from_dict on the root that assigned in g after it assigned in h, and
\* whose validation sees the bad value of c.
C7_Witness ==
    /\ last.op = "set_from_dict"
    /\ last.target = "root"
    /\ heap.log[1] = <<"set_value", "c">>
    /\ heap.log[2] = <<"set_value", "use_isolate">>
    /\ heap.item["c"].value = StrA
    /\ ~heap.group["h"].validation.element_validation["c"].passed

\* C8: set_from_dict ignores every key that does not name a child item or a
\* child group (doc, validation and unknown names included): it raises
\* nothing, adds no child, and leaves the value of every child the mapping
\* does not name unchanged.
C8_UnknownKeysIgnored ==
    [][last'.op = "set_from_dict" =>
          /\ heap'.raised = "none"
          /\ DOMAIN heap'.item = DOMAIN heap.item
          /\ DOMAIN heap'.group = DOMAIN heap.group
          /\ \A grp \in DOMAIN heap.group : heap'.group[grp].doc = heap.group[grp].doc
          /\ \A i \in (DOMAIN heap.item) \ NamedItems(last'.target, last'.data) :
                 /\ heap'.item[i].value = heap.item[i].value
                 /\ heap'.item[i].doc = heap.item[i].doc]_vars

\* A set_from_dict on g whose mapping holds a key that is no child of g, the
\* name of an item of another group among them.
C8_Witness ==
    /\ last.op = "set_from_dict"
    /\ last.target = "g"
    /\ \E k \in 1..Len(last.data) :
           ~last.data[k].isdict /\ last.data[k].key = "c"
    /\ heap.item["c"].value # StrA

\* Every item of the tree passed in the element_validation of its group and
\* no group recorded a failure of its own.
AllPassed ==
    \A grp \in Groups :
        /\ heap.group[grp].validation.fail_reasons = <<>>
        /\ \A e \in ChildItems(grp) :
               heap.group[grp].validation.element_validation[e].passed

\* C9: after validate() on a tree of any depth the root error tree equals
\* {name: "Passed"} iff every item at every depth passed and no group at any
\* depth recorded a group-level failure.
C9_PassedSentinelIffAllPassed ==
    (GroupValidated /\ last.target = "root") =>
        ((ConfigGroupValidation_to_dict(heap, "root", "root", TRUE) = <<Passed("root")>>)
            <=> AllPassed)

\* The group an element is an attribute of.
ParentOf(e) == CHOOSE grp \in Groups : InSeq(e, Children(grp))

\* The items whose validation in their group failed.
FailedItems ==
    {i \in TreeItems : ~heap.group[ParentOf(i)].validation.element_validation[i].passed}

\* The error tree that holds only the chain of groups from the root to grp
\* around the dict d.
RECURSIVE Chain(_, _)

Chain(grp, d) ==
    IF grp = "root" THEN <<SubDict("root", d)>>
    ELSE Chain(ParentOf(grp), <<SubDict(grp, d)>>)

\* C10: when exactly one leaf item fails in a validated tree that is
\* otherwise passing, the error tree is exactly the chain of group names from
\* the root to that leaf, ending in the leaf's fail_reasons.
C10_SingleFailureChain ==
    (/\ GroupValidated
     /\ last.target = "root"
     /\ Cardinality(FailedItems) = 1
     /\ \A grp \in Groups : heap.group[grp].validation.fail_reasons = <<>>)
        => \A i \in FailedItems :
               ConfigGroupValidation_to_dict(heap, "root", "root", TRUE)
                   = Chain(ParentOf(i),
                           <<Reasons(i, heap.group[ParentOf(i)].validation
                                            .element_validation[i].fail_reasons)>>)

\* C11: create(dict, raise_errors) raises iff raise_errors is true and the
\* populated tree's validation.passed is false, and the error raised
\* carries the error tree of the populated tree as its payload.
C11_CreateRaisesWithErrorTree ==
    last.op = "create" =>
        /\ (heap.raised # "none")
               <=> (last.val = True /\ ~heap.group[last.target].validation.passed)
        /\ heap.raised # "none" =>
               last.payload = ReturnString(
                   ConfigGroupValidation_to_dict(heap, last.target, "root", TRUE))

\* The items of the subtree of grp.
SubItems(grp) == UNION {ChildItems(x) : x \in SubGroups(grp)}

\* C12: populating a fresh tree of the same schema from the values-only
\* serialized mapping of a tree R yields a tree whose item values at every
\* depth equal those of R and which compares equal to R.
C12_RoundTrip ==
    last.op = "round_trip" =>
        /\ \A i \in SubItems(last.target) :
               Created(last.target, last.data).item[i].value = heap.item[i].value
        /\ last.val = True

\* The child values of grp are equal in a and b recursively over all
\* children, and so are doc and validation of every group of the subtree.
ContentEqual(a, b, grp) ==
    /\ \A i \in SubItems(grp) : a.item[i].value = b.item[i].value
    /\ \A x \in SubGroups(grp) : a.group[x] = b.group[x]

\* C13: two instances of the same group class compare equal iff their child
\* values are equal recursively and their non-child attributes are equal,
\* whichever objects they are; instances that differ in a child value
\* compare unequal, and equal instances have equal hashes.
C13_EqualityIsStructural ==
    last.op = "eq" =>
        LET other == Created(last.target, last.data)
        IN  /\ (last.val = True) <=> ContentEqual(heap, other, last.target)
            /\ (\E i \in SubItems(last.target) :
                    heap.item[i].value # other.item[i].value) => last.val = False
            /\ last.val = True =>
                   ConfigBase_hash(heap, last.target, "self")
                       = ConfigBase_hash(other, last.target, "other")

\* C14: set_from_dict is a pure function of its mapping: a tree, whatever
\* values and validation it held before, and a fresh tree of the same schema
\* hold the same item values and the same validation results after
\* set_from_dict with the same mapping (stated for the mappings that name
\* every item: an item that a mapping does not name keeps its value).
C14_SetFromDictIsPure ==
    (/\ last.op = "set_from_dict"
     /\ last.target = "root"
     /\ heap.raised = "none"
     /\ NamedItems("root", last.data) = TreeItems) =>
        LET other == Created("root", last.data)
        IN  /\ \A i \in TreeItems : heap.item[i].value = other.item[i].value
            /\ \A grp \in Groups :
                   heap.group[grp].validation = other.group[grp].validation

\* What validate() reports of a group: passed, the fail_reasons in order and
\* the outcome of every child item.
Outcome(gv) ==
    [passed |-> gv.passed,
     fail_reasons |-> gv.fail_reasons,
     element_keys |-> gv.element_keys,
     element_validation |-> [e \in DOMAIN gv.element_validation |->
         [passed |-> gv.element_validation[e].passed,
          fail_reasons |-> gv.element_validation[e].fail_reasons]]]

\* C15: validate() called twice on a group or an item with nothing written
\* in between yields the same content: the same passed, the same
\* fail_reasons in the same order and the same outcome for every child, at
\* every level below the group.
C15_ValidateIdempotent ==
    [][(/\ last.op = "validate"
        /\ last'.op = "validate"
        /\ last'.target = last.target
        /\ heap.raised = "none"
        /\ heap'.raised = "none") =>
           IF last.target \in Groups
           THEN \A grp \in SubGroups(last.target) :
                    Outcome(heap'.group[grp].validation)
                        = Outcome(heap.group[grp].validation)
           ELSE last'.ret = last.ret]_vars

\* The root validated again while the rule of g and the item c fail: g holds
\* the exceptions of two validations.
C15_Witness ==
    /\ last.op = "validate"
    /\ last.target = "root"
    /\ heap.raised = "none"
    /\ Len(heap.group["g"].validation.fail_exceptions) = 2
    /\ ~heap.group["h"].validation.element_validation["c"].passed

\* No message occurs twice in the list.
NoDuplicates(reasons) ==
    \A j, k \in 1..Len(reasons) : reasons[j] = reasons[k] => j = k

\* C16: no validation result of an item or of a group ever holds the same
\* failure message twice, whatever add_validation calls, validations and
\* writes came before; and an item written with a value that violates one
\* check holds exactly one failure message, however often it is written.
C16_NoDuplicateMessages ==
    /\ \A i \in DOMAIN heap.item : NoDuplicates(heap.item[i].validation.fail_reasons)
    /\ \A grp \in DOMAIN heap.group :
           /\ NoDuplicates(heap.group[grp].validation.fail_reasons)
           /\ \A e \in DOMAIN heap.group[grp].validation.element_validation :
                  NoDuplicates(heap.group[grp].validation.element_validation[e].fail_reasons)
    /\ NoDuplicates(last.ret.fail_reasons)
    /\ (/\ last.op \in {"set_value", "setattr"}
        /\ heap.raised = "none"
        /\ ConfigItem_validate(heap.item[last.target]).raised = "none"
        /\ Len(ConfigItem_validate(heap.item[last.target]).validation.fail_reasons) = 1)
           => Len(heap.item[last.target].validation.fail_reasons) = 1

\* validate() on the stand-alone item returned, and the value is None while
\* null is not allowed and NoneType is none of the allowed types: the value
\* violates both checks.
ViolatesBothChecks ==
    /\ ItemValidated
    /\ heap.raised = "none"
    /\ heap.item["item"].value = None
    /\ ~heap.item["item"].properties.allow_null
    /\ ~InSeq("NoneType", heap.item["item"].properties.allowed_types)

\* C17: leaf validation does not stop at the first failed check: a value
\* that violates the null check and the type check gets one reason for each,
\* in the order of the checks, and passed is false.
C17_NoShortCircuit ==
    ViolatesBothChecks =>
        /\ ~last.ret.passed
        /\ last.ret.fail_reasons
               = <<NullMsg(None),
                   TypeMsg(None, heap.item["item"].properties.allowed_types)>>

\* None validated on an item of allowed types int or float that does not
\* allow null: two reasons are reported.
C17_Witness ==
    /\ ViolatesBothChecks
    /\ heap.item["item"].properties.allowed_types = <<"int", "float">>
    /\ Len(last.ret.fail_reasons) = 2

\* A validation result holds a null-not-allowed reason.
HasNullFailure(validation) ==
    \E k \in 1..Len(validation.fail_reasons) :
        validation.fail_reasons[k].check = "allow_null"

\* C18: an item whose properties set allow_null may be left empty:
\* validating None passes with no reason; and a null-not-allowed failure is
\* recorded exactly when the value is None and allow_null is false.
C18_NullAllowedPasses ==
    (ItemValidated /\ heap.raised = "none") =>
        /\ (heap.item["item"].value = None /\ heap.item["item"].properties.allow_null)
               => (last.ret.passed /\ last.ret.fail_reasons = <<>>)
        /\ HasNullFailure(last.ret)
               <=> (heap.item["item"].value = None
                    /\ ~heap.item["item"].properties.allow_null)

\* The constructor of the properties of the last NewItem raised.
PropertiesRaised ==
    /\ heap.raised # "none"
    /\ heap.log[1][1] = "ItemTypeProperties"

\* C19: constructing properties with a default that is present (not None)
\* and does not pass the validation of these properties raises, for a
\* default that is falsy (0, False, "") as for any other; a default that
\* passes never makes the construction fail.
C19_InvalidDefaultRaises ==
    last.op = "new" =>
        LET r == ItemTypeProperties_validate(last.props, last.props.default)
            satisfies == r.raised = "none" /\ r.validation.passed
        IN  /\ (last.props.default # None /\ ~satisfies) => PropertiesRaised
            /\ (last.props.default # None /\ satisfies) => ~PropertiesRaised

Occurrences(reasons, msg) ==
    Cardinality({k \in 1..Len(reasons) : reasons[k] = msg})

\* validate() ran on g during the step and nothing was raised.
RuleRan(st) ==
    /\ st.raised = "none"
    /\ \E k \in 1..Len(st.log) : st.log[k] = <<"validate", "g">>

\* Exactly one of use_isolate, use_reconnect is enabled.
ExactlyOneEnabled(st) == Enabled(st, "use_isolate") # Enabled(st, "use_reconnect")

MaxNodes == 4

\* range(n)
Range(n) == 0..(n - 1)

\* np.zeros((n, n))
Zeros(n) == [y \in Range(n) |-> [x \in Range(n) |-> 0]]

\* The first assignment alone.
Connect_one_way(adj_matrix, a, b) ==
    [adj_matrix EXCEPT ![a][b] = 1]

\* adj_matrix[a][b] = 1; adj_matrix[b][a] = 1
Connect(adj_matrix, a, b) ==
    [adj_matrix EXCEPT ![a][b] = 1, ![b][a] = 1]

\* len(adj_matrix)
MatrixLen(adj_matrix) == Cardinality(DOMAIN adj_matrix)

\* random.random() lies in [0, 1): the outcomes 0.0, 0.4, 0.5 and 0.9, in
\* tenths, stand for the interval on both sides of every probability used.
RandomOutcomes == {0, 4, 5, 9}

\* random.randint(0, 99): the outcomes on both sides of every threshold used.
RandintOutcomes == {0, 49, 50, 99}

\* probability_of_edge and group_connectivity, in tenths.
Probabilities == {0, 5, 10}

\* nx.Graph(): the nodes and the undirected edges; add_edge of an edge the
\* graph holds changes nothing.
Graph(nodes, edges) == [nodes |-> nodes, edges |-> edges]

\* nx.to_numpy_array(graph) of a graph over range(n)
to_numpy_array(graph, n) ==
    [y \in Range(n) |-> [x \in Range(n) |->
        IF {y, x} \in graph.edges THEN 1 ELSE 0]]

\* The outcomes of generate_node_positions(adj_matrix) kept by SpecNet: two
\* of the dictionaries it can return (one position per node, all different,
\* inside 0..4n); SpecPositions runs the generator itself.
PositionOutcomes(n) ==
    {[i \in Range(n) |-> <<i, i>>], [i \in Range(n) |-> <<4 * n - i, 0>>]}

\* Network() before any node is added: the calls of add_node and add_edge
\* it received, in order.
Network == [add_node |-> <<>>, add_edge |-> <<>>]

\* Node(name=str(i)) and the position set on it
Node(i, positions) ==
    [name |-> i,
     pos |-> IF i \in DOMAIN positions THEN positions[i] ELSE <<>>]

\* The frame of a call before its first statement.
Frame(fn, n_nodes, probability_of_edge, adj_matrix, positions) ==
    [fn |-> fn, pc |-> "call", n_nodes |-> n_nodes,
     probability_of_edge |-> probability_of_edge,
     first_layer_size |-> 0, group_size |-> 0, group_connectivity |-> 0,
     i |-> 0, graph |-> Graph({}, {}), adj_matrix |-> adj_matrix,
     positions |-> positions, y_i |-> 0, edges |-> <<>>,
     network |-> Network, raised |-> "none", ret |-> "pending"]

RECURSIVE AddRowEdges(_, _, _, _, _)

\* for x_i, x_node in enumerate(y_node), from x_i on: edge is the sorted
\* pair; edges is the list the code tests it against.
AddRowEdges(network, edges, adj_matrix, y_i, x_i) ==
    IF x_i >= MatrixLen(adj_matrix) THEN network
    ELSE LET edge == IF y_i <= x_i THEN <<y_i, x_i>> ELSE <<x_i, y_i>>
             added == /\ adj_matrix[y_i][x_i] = 1
                      /\ ~InSeq(edge, edges)
         IN  AddRowEdges(
                 IF added THEN [network EXCEPT !.add_edge = Append(@, edge)]
                 ELSE network,
                 edges, adj_matrix, y_i, x_i + 1)

\* gnp_random_connected_graph up to the loop: the graph over range(n_nodes);
\* None for a probability <= 0, the complete graph for one >= 1.
GnpCall ==
    /\ heap.fn = "gnp"
    /\ heap.pc = "call"
    /\ LET nodes == Range(heap.n_nodes)
       IN  heap' =
             IF heap.probability_of_edge <= 0
             THEN [heap EXCEPT !.pc = "return", !.ret = "None",
                               !.graph = Graph(nodes, {})]
             ELSE IF heap.probability_of_edge >= 10
             THEN [heap EXCEPT !.pc = "return", !.ret = "Graph",
                       !.graph = Graph(nodes,
                           {{a, b} : a, b \in nodes} \ {{a} : a \in nodes})]
             ELSE [heap EXCEPT !.pc = "groupby", !.i = 0,
                               !.graph = Graph(nodes, {})]
    /\ UNCHANGED last

\* The round without random.choice: an edge exists only when drawn.
GnpGroup_without_choice ==
    /\ heap.fn = "gnp"
    /\ heap.pc = "groupby"
    /\ heap.i <= heap.n_nodes - 2
    /\ LET node_edges == {<<heap.i, j>> : j \in (heap.i + 1)..(heap.n_nodes - 1)}
       IN  \E draw \in [node_edges -> RandomOutcomes] :
               heap' = [heap EXCEPT
                   !.i = @ + 1,
                   !.graph.edges = @ \cup {{e[1], e[2]} : e \in
                               {x \in node_edges :
                                   draw[x] < heap.probability_of_edge}}]
    /\ UNCHANGED last

\* One round of `for _, node_edges in groupby(edges, key=lambda x: x[0])`:
\* the edges (i, j) with j > i of node i; random.choice adds one of them,
\* then every one of them is added when its random.random() is below the
\* probability.  The last node has no round: no pair starts with it.
GnpGroup ==
    /\ heap.fn = "gnp"
    /\ heap.pc = "groupby"
    /\ heap.i <= heap.n_nodes - 2
    /\ LET node_edges == {<<heap.i, j>> : j \in (heap.i + 1)..(heap.n_nodes - 1)}
       IN  \E random_edge \in node_edges :
           \E draw \in [node_edges -> RandomOutcomes] :
               heap' = [heap EXCEPT
                   !.i = @ + 1,
                   !.graph.edges = @ \cup {{random_edge[1], random_edge[2]}}
                       \cup {{e[1], e[2]} : e \in
                               {x \in node_edges :
                                   draw[x] < heap.probability_of_edge}}]
    /\ UNCHANGED last

\* After the loop: the matrix of the graph, the positions, and the call of
\* get_network_from_matrix_and_positions.
GnpConvert ==
    /\ heap.fn = "gnp"
    /\ heap.pc = "groupby"
    /\ heap.i > heap.n_nodes - 2
    /\ \E positions \in PositionOutcomes(heap.n_nodes) :
           heap' = [heap EXCEPT
               !.pc = "from_matrix", !.y_i = 0,
               !.adj_matrix = to_numpy_array(heap.graph, heap.n_nodes),
               !.positions = positions]
    /\ UNCHANGED last

\* get_network_from_matrix_and_positions called directly.
FromMatrixCall ==
    /\ heap.fn = "from_matrix"
    /\ heap.pc = "call"
    /\ heap' = [heap EXCEPT !.pc = "from_matrix", !.y_i = 0]
    /\ UNCHANGED last

\* One round of `for y_i, y_node in enumerate(adj_matrix)`: the node is
\* added with its position, then the edges of its row.
FromMatrixRow ==
    /\ heap.pc = "from_matrix"
    /\ heap.y_i < MatrixLen(heap.adj_matrix)
    /\ heap' = [heap EXCEPT
           !.y_i = @ + 1,
           !.network = AddRowEdges(
               [@ EXCEPT !.add_node = Append(@, Node(heap.y_i, heap.positions))],
               heap.edges, heap.adj_matrix, heap.y_i, 0)]
    /\ UNCHANGED last

\* return network
FromMatrixReturn ==
    /\ heap.pc = "from_matrix"
    /\ heap.y_i >= MatrixLen(heap.adj_matrix)
    /\ heap' = [heap EXCEPT !.pc = "return", !.ret = "Network"]
    /\ UNCHANGED last

\* The largest first_layer_size and group_size of a call.
MaxLayers == 2

MaxGroupSize == 2

\* The frame of a call of get_star_matrix_and_positions.
StarFrame(first_layer_size, group_size, group_connectivity) ==
    [Frame("star", 0, 0, Zeros(0), <<>>) EXCEPT
        !.first_layer_size = first_layer_size,
        !.group_size = group_size,
        !.group_connectivity = group_connectivity]

\* number_of_nodes = 1 + first_layer_size * group_size; the matrix of zeros.
StarCall ==
    /\ heap.fn = "star"
    /\ heap.pc = "call"
    /\ heap' = [heap EXCEPT
           !.pc = "groups", !.i = 0,
           !.n_nodes = 1 + heap.first_layer_size * heap.group_size,
           !.adj_matrix = Zeros(1 + heap.first_layer_size * heap.group_size)]
    /\ UNCHANGED last

\* One round of `for i in range(first_layer_size)` of the first loop: every
\* pair j < k of group i is connected when its random.randint(0, 99) is
\* below group_connectivity * 100.
StarGroup ==
    /\ heap.fn = "star"
    /\ heap.pc = "groups"
    /\ heap.i < heap.first_layer_size
    /\ LET pairs == {<<j, k>> \in Range(heap.group_size) \X Range(heap.group_size) :
                         j < k}
           at(j) == j + 1 + heap.i * heap.group_size
           RECURSIVE ConnectAll(_, _)
           ConnectAll(adj_matrix, S) ==
               IF S = {} THEN adj_matrix
               ELSE LET e == CHOOSE x \in S : TRUE
                    IN  ConnectAll(Connect(adj_matrix, at(e[1]), at(e[2])), S \ {e})
       IN  \E draw \in [pairs -> RandintOutcomes] :
               heap' = [heap EXCEPT
                   !.i = @ + 1,
                   !.adj_matrix = ConnectAll(@,
                       {e \in pairs : draw[e] < heap.group_connectivity * 10})]
    /\ UNCHANGED last

\* The first loop is over: the second starts.
StarGroupsDone ==
    /\ heap.fn = "star"
    /\ heap.pc = "groups"
    /\ heap.i >= heap.first_layer_size
    /\ heap' = [heap EXCEPT !.pc = "connect", !.i = 0]
    /\ UNCHANGED last

\* One round of the second loop: connector = random.randint(0, group_size - 1)
\* joins one node of group i to the centre; random.randint raises ValueError
\* on the empty range of a group_size of 0.
StarConnect ==
    /\ heap.fn = "star"
    /\ heap.pc = "connect"
    /\ heap.i < heap.first_layer_size
    /\ IF heap.group_size - 1 < 0
       THEN heap' = [heap EXCEPT !.pc = "return", !.raised = "ValueError",
                                 !.ret = "raised"]
       ELSE \E connector \in 0..(heap.group_size - 1) :
                heap' = [heap EXCEPT
                    !.i = @ + 1,
                    !.adj_matrix = Connect(@, 0,
                        1 + heap.i * heap.group_size + connector)]
    /\ UNCHANGED last

\* positions = generate_node_positions(adj_matrix); return adj_matrix, positions
StarReturn ==
    /\ heap.fn = "star"
    /\ heap.pc = "connect"
    /\ heap.i >= heap.first_layer_size
    /\ \E positions \in PositionOutcomes(MatrixLen(heap.adj_matrix)) :
           heap' = [heap EXCEPT !.pc = "return", !.ret = "matrix",
                                !.positions = positions]
    /\ UNCHANGED last

\* The largest matrix handed to get_network_from_matrix_and_positions directly.
MaxMatrix == 3

\* The symmetric matrices of zeros and ones over n nodes, the diagonal
\* included.
SymmetricMatrices(n) ==
    {m \in [Range(n) -> [Range(n) -> {0, 1}]] :
        \A y, x \in Range(n) : m[y][x] = m[x][y]}

\* The calls SpecNet starts from.
NetCalls ==
    {Frame("gnp", n, p, Zeros(0), <<>>) : n \in 1..MaxNodes, p \in Probabilities}
    \cup {StarFrame(f, g, c) :
              f \in 0..MaxLayers, g \in 0..MaxGroupSize, c \in Probabilities}
    \cup UNION {{Frame("from_matrix", n, 0, m, positions) :
                     m \in SymmetricMatrices(n),
                     positions \in PositionOutcomes(n) \cup {<<>>}} :
                n \in 0..MaxMatrix}

InitNet ==
    /\ heap \in NetCalls
    /\ last = Op("call", "network_creator", None, <<>>, ConfigItemValidation)

NextNet ==
    \/ GnpCall
    \/ GnpGroup
    \/ GnpConvert
    \/ FromMatrixCall
    \/ FromMatrixRow
    \/ FromMatrixReturn
    \/ StarCall
    \/ StarGroup
    \/ StarGroupsDone
    \/ StarConnect
    \/ StarReturn

SpecNet == InitNet /\ [][NextNet]_vars

\* The call returned.
Returned(fn) == heap.fn = fn /\ heap.pc = "return" /\ heap.raised = "none"

\* The nodes a node of the returned network is connected to, by the edges
\* handed to add_edge.
Neighbours(network, a) ==
    {b \in Range(MaxNodes) :
        InSeq(<<a, b>>, network.add_edge) \/ InSeq(<<b, a>>, network.add_edge)}

\* C22: gnp_random_connected_graph(n_nodes, p) with n_nodes >= 2 and p > 0
\* returns, whatever the random draws, a graph over exactly the nodes
\* 0..n_nodes-1 in which every node has at least one connection (to another
\* node): the complete graph for p >= 1, the Network built from the matrix
\* otherwise.
C22_NoIsolatedNode ==
    (Returned("gnp") /\ heap.n_nodes >= 2 /\ heap.probability_of_edge > 0) =>
        IF heap.ret = "Graph"
        THEN /\ heap.graph.nodes = Range(heap.n_nodes)
             /\ \A a \in heap.graph.nodes :
                    \E b \in heap.graph.nodes \ {a} : {a, b} \in heap.graph.edges
        ELSE /\ heap.ret = "Network"
             /\ [k \in 1..Len(heap.network.add_node) |->
                    heap.network.add_node[k].name]
                  = [k \in 1..heap.n_nodes |-> k - 1]
             /\ \A a \in Range(heap.n_nodes) :
                    Neighbours(heap.network, a) \ {a} # {}

\* A network of four nodes returned for p = 0.5 in which the last node is
\* connected to its predecessor only and node 0 has a single connection.
C22_Witness ==
    /\ Returned("gnp")
    /\ heap.ret = "Network"
    /\ heap.n_nodes = 4
    /\ heap.probability_of_edge = 5
    /\ Neighbours(heap.network, 3) = {2}
    /\ Cardinality(Neighbours(heap.network, 0)) = 1

\* The nodes of group i of a star of groups of group_size nodes.
GroupNodes(i, group_size) == (1 + i * group_size)..((i + 1) * group_size)

\* The matrix is symmetric, over 1 + first_layer_size * group_size nodes, the
\* centre has exactly one connection to each group, and no two nodes of
\* different groups are connected.
StarShape(adj_matrix, first_layer_size, group_size) ==
    /\ DOMAIN adj_matrix = Range(1 + first_layer_size * group_size)
    /\ \A y, x \in DOMAIN adj_matrix : adj_matrix[y][x] = adj_matrix[x][y]
    /\ \A i \in Range(first_layer_size) :
           Cardinality({a \in GroupNodes(i, group_size) : adj_matrix[0][a] = 1}) = 1
    /\ \A i, j \in Range(first_layer_size) :
           i # j => \A a \in GroupNodes(i, group_size), b \in GroupNodes(j, group_size) :
                        adj_matrix[a][b] = 0

\* C23 as stated: every call of get_star_matrix_and_positions returns, and
\* returns a matrix of the star shape.
C23_StarShapeAlways ==
    (heap.fn = "star" /\ heap.pc = "return") =>
        /\ heap.raised = "none"
        /\ StarShape(heap.adj_matrix, heap.first_layer_size, heap.group_size)

\* C23, amended: for a group_size of at least 1 every call of
\* get_star_matrix_and_positions returns, whatever the random draws, a
\* symmetric matrix over 1 + first_layer_size * group_size nodes in which
\* the centre has exactly one connection to each group and no two nodes of
\* different groups are connected.
C23_StarShape ==
    (heap.fn = "star" /\ heap.pc = "return" /\ heap.group_size >= 1) =>
        /\ heap.raised = "none"
        /\ heap.ret = "matrix"
        /\ StarShape(heap.adj_matrix, heap.first_layer_size, heap.group_size)

\* Two groups of two nodes returned, the pair of each group connected, the
\* centre joined to the last node of the first group and the first of the
\* second.
C23_Witness ==
    /\ Returned("star")
    /\ heap.first_layer_size = 2
    /\ heap.group_size = 2
    /\ heap.adj_matrix[0][2] = 1
    /\ heap.adj_matrix[0][3] = 1
    /\ \A i \in Range(2) : \A a, b \in GroupNodes(i, 2) :
           a # b => heap.adj_matrix[a][b] = 1

\* C30: get_network_from_matrix_and_positions hands every node of the matrix
\* to add_node exactly once, in order, and for a symmetric matrix hands each
\* undirected edge {i, j} of the matrix to add_edge exactly once, and no
\* other edge.
C30_EachEdgeAddedOnce ==
    (heap.pc = "return" /\ heap.ret = "Network") =>
        LET n == MatrixLen(heap.adj_matrix)
        IN  /\ [k \in 1..Len(heap.network.add_node) |->
                   heap.network.add_node[k].name] = [k \in 1..n |-> k - 1]
            /\ \A i, j \in Range(n) :
                   i <= j => Occurrences(heap.network.add_edge, <<i, j>>)
                                 = heap.adj_matrix[i][j]
            /\ \A k \in 1..Len(heap.network.add_edge) :
                   heap.network.add_edge[k][1] <= heap.network.add_edge[k][2]

(***************************************************************************)
(* GameModeSection (yawning_titan_gui/forms.py): the forms of a section,   *)
(* one per group of the tree.  The machine SpecForms writes item values    *)
(* and asks the section of the root for its form errors.                   *)
(***************************************************************************)
\* self.forms after create_form_from_group(section): the form of the group,
\* then those of its child groups, depth first; form.config_class is the
\* group.
Forms == <<"root", "g", "h">>

\* The entry of a form in the result of get_form_errors.
FormEntry(st, grp) ==
    [group |-> st.group[grp].validation.fail_reasons,
     items |-> [e \in {st.group[grp].validation.element_keys[k] :
                          k \in 1..Len(st.group[grp].validation.element_keys)} |->
                   IF e \in Groups THEN st.group[e].validation.fail_reasons
                   ELSE st.group[grp].validation.element_validation[e].fail_reasons]]

\* The filter of get_form_errors: not validation.group_passed, or an item
\* of the group whose own validation attribute did not pass.
FormListed(st, grp) ==
    \/ ~group_passed(st, grp)
    \/ \E item \in ChildItems(grp) : ~st.item[item].validation.passed

\* GameModeSection.get_form_errors(): the section's group is validated,
\* then the entries are collected under the index of their form.
GameModeSection_get_form_errors(st) ==
    LET s1 == ConfigGroup_validate(st, "root")
    IN  [st |-> s1,
         errors |-> [i \in {k \in 0..(Len(Forms) - 1) : FormListed(s1, Forms[k + 1])} |->
                        FormEntry(s1, Forms[i + 1])]]

GetFormErrors ==
    LET r == GameModeSection_get_form_errors(Start)
    IN  /\ heap' = r.st
        /\ WithinBounds(heap')
        /\ last' = Op("get_form_errors", "root", None, <<>>, r.errors)

NextForms ==
    \/ \E i \in DOMAIN heap.item : \E v \in Inputs(i) : SetValue(i, v)
    \/ GetFormErrors

SpecForms == Init /\ [][NextForms]_vars

\* C24: get_form_errors returns an entry for a form exactly when the group
\* of the form holds errors of its own (fail_reasons not empty) or an item
\* directly inside the group failed the validation just made; a group that
\* failed only through a child group gets no entry.
C24_FormErrorsListOwnFailures ==
    last.op = "get_form_errors" =>
        \A i \in 0..(Len(Forms) - 1) :
            LET grp == Forms[i + 1]
                gv == heap.group[grp].validation
            IN  i \in DOMAIN last.ret <=>
                    \/ gv.fail_reasons # <<>>
                    \/ \E e \in ChildItems(grp) : ~gv.element_validation[e].passed

\* C25: the validation of a group reflects the tree as it is at the latest
\* validate(): when the group failed before (passed = false with its
\* fail_reasons) and the values are such that the rule holds and every item
\* of the tree is valid, the validate() leaves the group passed with no
\* fail_reason.
C25_ValidationReflectsLatest ==
    [][(/\ RuleRan(heap')
        /\ ~heap.group["g"].validation.passed
        /\ heap.group["g"].validation.fail_reasons # <<>>
        /\ ~ExactlyOneEnabled(heap')
        /\ \A i \in TreeItems : ConfigItem_validate(heap'.item[i]).validation.passed)
          => /\ heap'.group["g"].validation.passed
             /\ heap'.group["g"].validation.fail_reasons = <<>>]_vars

\* C26: an item constructed with the value None has, after construction,
\* the default of its properties whenever that default is not None (0,
\* False and "" included), and the value None only when the properties
\* define no default.
C26_DefaultOnConstruction ==
    (/\ last.op = "new"
     /\ last.val = None
     /\ heap.raised = "none"
     /\ "item" \in DOMAIN heap.item) =>
        /\ last.props.default # None => heap.item["item"].value = last.props.default
        /\ heap.item["item"].value = None => last.props.default = None

(***************************************************************************)
(* Equality and validation history.  The machine SpecHistory               *)
(* writes and validates the tree of Spec and compares it with a second     *)
(* tree of the same schema that was given the same values and validated a  *)
(* chosen number of times.                                                 *)
(***************************************************************************)
\* The most validate() calls made on the second tree.
MaxValidations == 2

RECURSIVE Validated(_, _, _)

\* grp.validate() called k times in a row
Validated(st, grp, k) ==
    IF k = 0 THEN st ELSE Validated(ConfigGroup_validate(st, grp), grp, k - 1)

\* A second tree of the schema of cls: constructed, every item given the
\* value it has in st with set_value, then validated k times.
Twin(st, cls, k) ==
    LET new == NewTree(cls)
        written == [new EXCEPT !.item = [i \in DOMAIN @ |->
                        ConfigItem_set_value(@[i], st.item[i].value)]]
    IN  Validated(written, cls, k)

\* tree == twin, for the twin validated k times: last.val holds the outcome.
EqualsTwin(k) ==
    /\ heap' = Start
    /\ last' = [Op("eq_twin", "root",
                   PyBool(ConfigBase_eq(heap, "root", Twin(heap, "root", k), "root")),
                   <<>>, ConfigItemValidation)
                   EXCEPT !.payload = [kind |-> "int", tree |-> <<k>>]]

NextHistory ==
    \/ \E i \in DOMAIN heap.item : \E v \in Inputs(i) : SetValue(i, v)
    \/ ValidateGroup("root")
    \/ \E k \in 0..MaxValidations : EqualsTwin(k)

SpecHistory == Init /\ [][NextHistory]_vars

\* C27: two trees of the same schema that hold the same item values at every
\* depth compare equal, whether or not and however many times validate() was
\* called on each of them after its last write.
C27_EqualityIgnoresHistory ==
    last.op = "eq_twin" => last.val = True

\* The reasons and the exceptions of a validation result are paired, and
\* passed is false exactly when a reason is held.
Paired(validation) ==
    /\ Len(validation.fail_reasons) = Len(validation.fail_exceptions)
    /\ \A k \in 1..Len(validation.fail_reasons) :
           /\ k <= Len(validation.fail_exceptions)
           /\ validation.fail_exceptions[k].msg = validation.fail_reasons[k]
    /\ ~validation.passed <=> validation.fail_reasons # <<>>

\* C28: in the validation of every group and of every item, fail_reasons
\* and fail_exceptions have the same length, the i-th exception is the one
\* recorded with the i-th reason, and passed is false exactly when
\* fail_reasons is not empty.
C28_ReasonsAndExceptionsPaired ==
    heap.raised = "none" =>
        /\ \A grp \in DOMAIN heap.group :
               /\ Paired(heap.group[grp].validation)
               /\ \A e \in DOMAIN heap.group[grp].validation.element_validation :
                      Paired(heap.group[grp].validation.element_validation[e])
        /\ \A i \in DOMAIN heap.item : Paired(heap.item[i].validation)

(***************************************************************************)
(* generate_node_positions (network_creator.py 13-54).  The machine        *)
(* SpecPositions runs the generator on a matrix of n rows: the             *)
(* frame holds the loop variable i, the positions found, and fails and     *)
(* value of the retry loop.  A drawn position is tested at once by the     *)
(* condition of the while loop and is either kept as the position of the   *)
(* node or replaced by the next draw, so it is not part of the frame;      *)
(* fails                                                                   *)
(* and value are not read again once the loop of a node is left (the next  *)
(* round sets them anew) and are back at 0 and 5 from then on.             *)
(***************************************************************************)
\* len(adj_matrix) of the calls made.
MatrixSizes == {0, 1, 2}

\* fails grows without limit and is read only through fails % 10: once it
\* reaches MaxFails (value is 0 since 50 fails) it is set back by ten.
MaxFails == 60

\* The outcomes of the two random.randint(0, len(adj_matrix) * 4)
RandPos(n) == (0..(4 * n)) \X (0..(4 * n))

\* check_if_nearby with strict comparisons.
check_if_nearby_strict(pos, full_list, value) ==
    \E k \in DOMAIN full_list :
        /\ full_list[k][1] - value < pos[1] /\ pos[1] < full_list[k][1] + value
        /\ full_list[k][2] - value < pos[2] /\ pos[2] < full_list[k][2] + value

\* check_if_nearby(pos, full_list, value)
check_if_nearby(pos, full_list, value) ==
    \E k \in DOMAIN full_list :
        /\ full_list[k][1] - value <= pos[1] /\ pos[1] <= full_list[k][1] + value
        /\ full_list[k][2] - value <= pos[2] /\ pos[2] <= full_list[k][2] + value

\* The frame of generate_node_positions(adj_matrix) before the for loop.
PositionsFrame(n) ==
    [fn |-> "generate_node_positions", pc |-> "for", n |-> n, i |-> 0,
     positions |-> <<>>, fails |-> 0, value |-> 5, raised |-> "none"]

\* The condition of the while loop holds for the position just drawn (it is
\* near a position found): the loop goes on.
WhileNear(frame) ==
    /\ \E rand_pos \in RandPos(frame.n) :
           check_if_nearby(rand_pos, frame.positions, frame.value)
    /\ heap' = [frame EXCEPT !.pc = "while"]

\* The condition fails: positions[str(i)] = rand_pos and the for loop
\* moves on.
WhileFree(frame) ==
    \E rand_pos \in RandPos(frame.n) :
        /\ ~check_if_nearby(rand_pos, frame.positions, frame.value)
        /\ heap' = [frame EXCEPT
               !.pc = "for", !.i = @ + 1, !.fails = 0, !.value = 5,
               !.positions = [k \in (DOMAIN @) \cup {frame.i} |->
                                 IF k = frame.i THEN rand_pos ELSE @[k]]]

\* A round of the for loop: the first draw for node i, fails = 0, value = 5.
ForNode ==
    /\ heap.fn = "generate_node_positions"
    /\ heap.pc = "for"
    /\ heap.i < heap.n
    /\ LET frame == [heap EXCEPT !.fails = 0, !.value = 5]
       IN  WhileNear(frame) \/ WhileFree(frame)
    /\ UNCHANGED last

\* fails += 1; every tenth fail value -= 1, and -1 becomes 0.
Shrink(fails, value) ==
    IF fails % 10 = 0
    THEN (IF value - 1 = -1 THEN 0 ELSE value - 1)
    ELSE value

\* The frame after the body of the while loop, the new draw apart.
Failed(frame) ==
    LET fails == frame.fails + 1
    IN  [frame EXCEPT
            !.fails = IF fails >= MaxFails THEN fails - 10 ELSE fails,
            !.value = Shrink(fails, frame.value)]

\* A round of the while loop whose new draw is near a position found.
RetryNear ==
    /\ heap.fn = "generate_node_positions"
    /\ heap.pc = "while"
    /\ WhileNear(Failed(heap))
    /\ UNCHANGED last

\* A round of the while loop whose new draw is free: the loop is left.
RetryFree ==
    /\ heap.fn = "generate_node_positions"
    /\ heap.pc = "while"
    /\ WhileFree(Failed(heap))
    /\ UNCHANGED last

\* return positions
PositionsReturn ==
    /\ heap.fn = "generate_node_positions"
    /\ heap.pc = "for"
    /\ heap.i >= heap.n
    /\ heap' = [heap EXCEPT !.pc = "return"]
    /\ UNCHANGED last

InitPositions ==
    /\ heap \in {PositionsFrame(n) : n \in MatrixSizes}
    /\ last = Op("call", "generate_node_positions", None, <<>>, ConfigItemValidation)

NextPositions ==
    \/ ForNode
    \/ RetryNear
    \/ RetryFree
    \/ PositionsReturn

\* The program keeps running, and a draw that ends the retry loop is not
\* avoided for ever while one exists.
SpecPositions ==
    /\ InitPositions
    /\ [][NextPositions]_vars
    /\ WF_vars(NextPositions)
    /\ WF_vars(RetryFree)

\* C29: generate_node_positions returns one position per node of the
\* matrix, both coordinates in 0..4n, no two nodes at the same position; in
\* the retry loop value stays within 0..5 and never grows; and the call
\* returns: the retry loop of every node exits under fair draws.
C29_DistinctPositionsAndExit ==
    /\ [](heap.pc = "return" =>
             /\ DOMAIN heap.positions = Range(heap.n)
             /\ \A k \in DOMAIN heap.positions : heap.positions[k] \in RandPos(heap.n)
             /\ \A j, k \in DOMAIN heap.positions :
                    j # k => heap.positions[j] # heap.positions[k])
    /\ [](heap.value \in 0..5)
    /\ [][(heap.pc = "while" /\ heap'.pc = "while") =>
               heap'.value <= heap.value]_vars
    /\ <>(heap.pc = "return")

\* Two nodes side by side: the second was placed after value had shrunk to
\* 0, that is after fifty draws or more were turned down.
C29_Witness ==
    /\ heap.pc = "return"
    /\ heap.n = 2
    /\ heap.positions[0] = <<4, 4>>
    /\ heap.positions[1] = <<4, 5>>

====
